---------------------------- MODULE Spec2Model ----------------------------
(***************************************************************************)
(* Model of src/open_meteo_api.py: class OpenMeteoHistoricalAPI.           *)
(*                                                                         *)
(* One object is constructed (or its construction raises); afterwards the  *)
(* caller may invoke _build_params, fetch and to_dataframe in any order.   *)
(* The remote archive API is the environment: every HTTP GET has an        *)
(* outcome chosen nondeterministically (transport failure, error status,   *)
(* undecodable body, or a JSON object).                                    *)
(*                                                                         *)
(* Python values that may be None, or whose type matters, are tagged       *)
(* records [type |-> ..., ...]; a Python dict with string keys is a        *)
(* function from strings, wrapped as [type |-> "dict", v |-> f].           *)
(***************************************************************************)
EXTENDS Integers, Sequences, FiniteSets, TLC

VARIABLES
    self,       \* the constructed object (its attributes), or None
    op,         \* the last operation the caller invoked ("none" at start)
    arg,        \* its input: constructor arguments, or the HTTP outcome
    ret,        \* the value it returned (None when it raised)
    exc,        \* the exception class it raised to the caller, or NoExc
    stdout,     \* whether it printed the "API request error" report
    request,    \* the last HTTP GET issued: [url, params], or None
    first_params \* the mapping the first _build_params call produced, or None

vars == <<self, op, arg, ret, exc, stdout, request, first_params>>

----------------------------------------------------------------------------
(* Bounds of the model. *)

\* longest variable list passed to the constructor
MaxLen == 2
\* most rows in a section of the response payload
MaxRows == 2

----------------------------------------------------------------------------
(* Python values. *)

None == [type |-> "NoneType"]
Str(s) == [type |-> "str", v |-> s]
Float(x) == [type |-> "float", v |-> x]
Dict(f) == [type |-> "dict", v |-> f]
NoExc == "none"

EmptyDict == [k \in {} |-> None]

\* Python truth value of a tagged value: `if x:`
Truthy(x) ==
    CASE x.type = "NoneType" -> FALSE
      [] x.type = "str" -> x.v # ""
      [] x.type = "float" -> x.v # 0
      [] x.type = "dict" -> DOMAIN x.v # {}
      [] OTHER -> TRUE

\* sep.join(seq) for a list of strings
RECURSIVE join(_, _)
join(sep, seq) ==
    IF seq = <<>> THEN ""
    ELSE IF Len(seq) = 1 THEN seq[1]
    ELSE seq[1] \o sep \o join(sep, Tail(seq))

\* [v for v in seq if v in catalog]
RECURSIVE list_filter(_, _)
list_filter(seq, catalog) ==
    IF seq = <<>> THEN <<>>
    ELSE IF Head(seq) \in catalog
         THEN <<Head(seq)>> \o list_filter(Tail(seq), catalog)
         ELSE list_filter(Tail(seq), catalog)

----------------------------------------------------------------------------
(* Class constants. *)

BASE_URL == "https://archive-api.open-meteo.com/v1/archive"

\* variant: the hourly catalog without "snow_depth"
HOURLY_VARIABLES_short ==
    { "temperature_2m", "relative_humidity_2m", "dew_point_2m", "apparent_temperature",
      "pressure_msl", "surface_pressure", "precipitation", "rain", "snowfall",
      "cloud_cover", "cloud_cover_low", "cloud_cover_mid", "cloud_cover_high",
      "shortwave_radiation", "direct_radiation", "direct_normal_irradiance",
      "diffuse_radiation", "global_tilted_irradiance", "sunshine_duration",
      "wind_speed_10m", "wind_speed_100m", "wind_direction_10m", "wind_direction_100m",
      "wind_gusts_10m", "et0_fao_evapotranspiration", "weather_code",
      "vapour_pressure_deficit", "soil_temperature_0_to_7cm", "soil_temperature_7_to_28cm",
      "soil_temperature_28_to_100cm", "soil_temperature_100_to_255cm",
      "soil_moisture_0_to_7cm", "soil_moisture_7_to_28cm",
      "soil_moisture_28_to_100cm", "soil_moisture_100_to_255cm" }

HOURLY_VARIABLES ==
    { "temperature_2m", "relative_humidity_2m", "dew_point_2m", "apparent_temperature",
      "pressure_msl", "surface_pressure", "precipitation", "rain", "snowfall",
      "cloud_cover", "cloud_cover_low", "cloud_cover_mid", "cloud_cover_high",
      "shortwave_radiation", "direct_radiation", "direct_normal_irradiance",
      "diffuse_radiation", "global_tilted_irradiance", "sunshine_duration",
      "wind_speed_10m", "wind_speed_100m", "wind_direction_10m", "wind_direction_100m",
      "wind_gusts_10m", "et0_fao_evapotranspiration", "weather_code", "snow_depth",
      "vapour_pressure_deficit", "soil_temperature_0_to_7cm", "soil_temperature_7_to_28cm",
      "soil_temperature_28_to_100cm", "soil_temperature_100_to_255cm",
      "soil_moisture_0_to_7cm", "soil_moisture_7_to_28cm",
      "soil_moisture_28_to_100cm", "soil_moisture_100_to_255cm" }

DAILY_VARIABLES ==
    { "weather_code", "temperature_2m_max", "temperature_2m_min",
      "apparent_temperature_max", "apparent_temperature_min",
      "precipitation_sum", "rain_sum", "snowfall_sum", "precipitation_hours",
      "sunrise", "sunset", "sunshine_duration", "daylight_duration",
      "wind_speed_10m_max", "wind_gusts_10m_max", "wind_direction_10m_dominant",
      "shortwave_radiation_sum", "et0_fao_evapotranspiration" }

----------------------------------------------------------------------------
(* Inputs of the constructor. *)

\* names a caller may request: hourly only, daily only, in both catalogs,
\* in neither
Names == { "temperature_2m", "sunrise", "weather_code", "wind_speed" }

RECURSIVE ListsOfLen(_)
ListsOfLen(n) ==
    IF n = 0 THEN { <<>> }
    ELSE { <<x>> \o s : x \in Names, s \in ListsOfLen(n - 1) }

VariableLists == UNION { ListsOfLen(n) : n \in 0..MaxLen }

Models == { None, Str(""), Str("era5") }
Elevations == { None, Float(0), Float(38) }

InitArgs ==
    [ latitude : {52}, longitude : {13},
      variables : VariableLists,
      start_date : {"2023-01-01"}, end_date : {"2023-01-02"},
      timezone : {"auto"}, temperature_unit : {"celsius"},
      wind_speed_unit : {"kmh"}, precipitation_unit : {"mm"},
      timeformat : {"iso8601"},
      model : Models, elevation : Elevations,
      cell_selection : {"land"} ]

----------------------------------------------------------------------------
(* __init__ *)

\* variant: the kept names in reverse order
classify_hourly_reversed(variables) ==
    LET f == list_filter(variables, HOURLY_VARIABLES)
    IN  [i \in 1..Len(f) |-> f[Len(f) + 1 - i]]

\* self.hourly_vars = [v for v in variables if v in self.HOURLY_VARIABLES]
classify_hourly(variables) == list_filter(variables, HOURLY_VARIABLES)

\* variant: a partition, a name already taken as hourly is not daily
classify_daily_exclusive(variables) ==
    list_filter(variables, DAILY_VARIABLES \ HOURLY_VARIABLES)

\* self.daily_vars = [v for v in variables if v in self.DAILY_VARIABLES]
classify_daily(variables) == list_filter(variables, DAILY_VARIABLES)

\* variant: `or` in place of `and`
no_valid_variables_either(hourly_vars, daily_vars) ==
    hourly_vars = <<>> \/ daily_vars = <<>>

\* if not self.hourly_vars and not self.daily_vars: raise ValueError
no_valid_variables(hourly_vars, daily_vars) ==
    hourly_vars = <<>> /\ daily_vars = <<>>

\* the outcome of OpenMeteoHistoricalAPI(**a): the object, or the exception
__init__(a) ==
    LET hourly_vars == classify_hourly(a.variables)
        daily_vars == classify_daily(a.variables)
        obj == [ type |-> "OpenMeteoHistoricalAPI",
                 latitude |-> a.latitude, longitude |-> a.longitude,
                 variables |-> a.variables,
                 start_date |-> a.start_date, end_date |-> a.end_date,
                 timezone |-> a.timezone,
                 temperature_unit |-> a.temperature_unit,
                 wind_speed_unit |-> a.wind_speed_unit,
                 precipitation_unit |-> a.precipitation_unit,
                 timeformat |-> a.timeformat,
                 model |-> a.model, elevation |-> a.elevation,
                 cell_selection |-> a.cell_selection,
                 hourly_vars |-> hourly_vars, daily_vars |-> daily_vars ]
    IN  IF no_valid_variables(hourly_vars, daily_vars)
        THEN [self |-> None, exc |-> "ValueError"]
        ELSE [self |-> obj, exc |-> NoExc]

----------------------------------------------------------------------------
(* _build_params *)

BaseKeys ==
    { "latitude", "longitude", "start_date", "end_date", "timezone",
      "temperature_unit", "wind_speed_unit", "precipitation_unit",
      "timeformat", "cell_selection" }

\* params = {"latitude": self.latitude, ..., "cell_selection": self.cell_selection}
base_params(obj) == [k \in BaseKeys |-> obj[k]]

\* if self.hourly_vars:
has_hourly(obj) == obj.hourly_vars # <<>>

\* if self.daily_vars:
has_daily(obj) == obj.daily_vars # <<>>

\* if self.model:
has_model(obj) == Truthy(obj.model)

\* variant: `if self.elevation:`
has_elevation_truthy(obj) == Truthy(obj.elevation)

\* if self.elevation is not None:
has_elevation(obj) == obj.elevation # None

\* the dict held by the local `params` at the return statement
params_of(obj) ==
    LET p0 == base_params(obj)
        p1 == IF has_hourly(obj)
              THEN ("hourly" :> join(",", obj.hourly_vars)) @@ p0 ELSE p0
        p2 == IF has_daily(obj)
              THEN ("daily" :> join(",", obj.daily_vars)) @@ p1 ELSE p1
        p3 == IF has_model(obj) THEN ("model" :> obj.model.v) @@ p2 ELSE p2
        p4 == IF has_elevation(obj)
              THEN ("elevation" :> obj.elevation.v) @@ p3 ELSE p3
    IN  p4

\* variant: the call consumes the list it joins (self.hourly_vars is emptied)
_build_params_consuming(obj) ==
    [ self |-> [obj EXCEPT !.hourly_vars = <<>>],
      ret |-> Dict(params_of(obj)), exc |-> NoExc ]

\* the call self._build_params(): the object afterwards, and the result
_build_params(obj) ==
    [ self |-> obj, ret |-> Dict(params_of(obj)), exc |-> NoExc ]

----------------------------------------------------------------------------
(* The archive API: outcomes of requests.get(BASE_URL, params=params). *)

HourlyTimes ==
    << "2020-01-01T00:00", "2020-01-01T01:00", "2020-01-01T02:00",
       "2020-01-01T03:00" >>
DailyTimes == << "2020-01-01", "2020-01-02", "2020-01-03", "2020-01-04" >>

\* a section of n rows: the "time" array and one field array
hourly_section(n) ==
    ("time" :> SubSeq(HourlyTimes, 1, n)) @@
    ("temperature_2m" :> [i \in 1..n |-> i])

daily_section(n) ==
    ("time" :> SubSeq(DailyTimes, 1, n)) @@
    ("sunrise" :> [i \in 1..n |-> 7 * i])

\* a section that lacks the "time" array
section_without_time(f) == [k \in (DOMAIN f) \ {"time"} |-> f[k]]

HourlySections ==
    { hourly_section(MaxRows), section_without_time(hourly_section(MaxRows)) }

DailySections ==
    { daily_section(MaxRows), section_without_time(daily_section(MaxRows)) }

\* a section the payload does not have
Absent == None

payload(h, d) ==
    Dict( (IF h = Absent THEN EmptyDict ELSE ("hourly" :> h)) @@
          (IF d = Absent THEN EmptyDict ELSE ("daily" :> d)) )

\* JSON objects the server may answer with
Payloads ==
    { payload(h, d) : h \in {Absent} \cup HourlySections,
                      d \in {Absent} \cup DailySections }
        \cup { Dict(("latitude" :> 52) @@ ("longitude" :> 13)) }

HttpOutcomes ==
    { [kind |-> "ConnectionError"], [kind |-> "Timeout"] }
        \cup { [kind |-> "response", status |-> s, decodable |-> FALSE]
                 : s \in {200, 404, 500} }
        \cup { [kind |-> "response", status |-> 200, decodable |-> TRUE,
                json |-> p] : p \in Payloads }

\* requests.exceptions: the classes derived from RequestException
\* (JSONDecodeError, raised by response.json() on an undecodable body, is
\* one of them since requests 2.27)
RequestExceptions ==
    { "RequestException", "ConnectionError", "Timeout", "HTTPError",
      "JSONDecodeError" }

\* requests.get(...): the exception it raises, or NoExc
requests_get(http) == IF http.kind = "response" THEN NoExc ELSE http.kind

\* response.raise_for_status()
raise_for_status(http) ==
    IF http.status >= 400 /\ http.status < 600 THEN "HTTPError" ELSE NoExc

\* response.json(): [exc, value]
response_json(http) ==
    IF http.decodable THEN [exc |-> NoExc, value |-> http.json]
    ELSE [exc |-> "JSONDecodeError", value |-> None]

----------------------------------------------------------------------------
(* fetch *)

\* variant: `except requests.HTTPError as e:`
caught_http_error_only(e) == e = "HTTPError"

\* except requests.RequestException as e:
caught(e) == e \in RequestExceptions

\* the try block: the exception raised inside it (or NoExc) and the value
try_block(http) ==
    IF requests_get(http) # NoExc
    THEN [exc |-> requests_get(http), value |-> None]
    ELSE IF raise_for_status(http) # NoExc
    THEN [exc |-> raise_for_status(http), value |-> None]
    ELSE response_json(http)

\* the call self.fetch(): the object afterwards, the result or exception,
\* what was printed and the request that was issued
fetch(obj, http) ==
    LET bp == _build_params(obj)
        req == [url |-> BASE_URL, params |-> bp.ret]
        t == try_block(http)
    IN  IF t.exc = NoExc
        THEN [ self |-> bp.self, ret |-> t.value, exc |-> NoExc,
               stdout |-> FALSE, request |-> req, params |-> bp.ret ]
        ELSE IF caught(t.exc)
        THEN [ self |-> bp.self, ret |-> None, exc |-> NoExc,
               stdout |-> TRUE, request |-> req, params |-> bp.ret ]
        ELSE [ self |-> bp.self, ret |-> None, exc |-> t.exc,
               stdout |-> FALSE, request |-> req, params |-> bp.ret ]

----------------------------------------------------------------------------
(* to_dataframe *)

Timestamp(y, mo, d, h, mi) ==
    [year |-> y, month |-> mo, day |-> d, hour |-> h, minute |-> mi]

\* pd.to_datetime on one ISO-8601 string
to_datetime(s) ==
    CASE s = "2020-01-01T00:00" -> Timestamp(2020, 1, 1, 0, 0)
      [] s = "2020-01-01T01:00" -> Timestamp(2020, 1, 1, 1, 0)
      [] s = "2020-01-01T02:00" -> Timestamp(2020, 1, 1, 2, 0)
      [] s = "2020-01-01T03:00" -> Timestamp(2020, 1, 1, 3, 0)
      [] s = "2020-01-01" -> Timestamp(2020, 1, 1, 0, 0)
      [] s = "2020-01-02" -> Timestamp(2020, 1, 2, 0, 0)
      [] s = "2020-01-03" -> Timestamp(2020, 1, 3, 0, 0)
      [] s = "2020-01-04" -> Timestamp(2020, 1, 4, 0, 0)

\* df = pd.DataFrame(section); df["time"] = pd.to_datetime(df["time"]);
\* df.set_index("time", inplace=True)
make_table(section) ==
    IF "time" \notin DOMAIN section
    THEN [exc |-> "KeyError", df |-> None]
    ELSE [ exc |-> NoExc,
           df |-> [ type |-> "DataFrame",
                    index_name |-> "time",
                    index |-> [i \in 1..Len(section["time"]) |->
                                 to_datetime(section["time"][i])],
                    columns |-> [k \in (DOMAIN section) \ {"time"} |->
                                   section[k]] ] ]

\* if data is None:
no_data(data) == data = None

\* variant: `if dfs is None:`
no_tables_never(dfs) == FALSE

\* if not dfs:
no_tables(dfs) == DOMAIN dfs = {}

\* return dfs["hourly"] if len(dfs) == 1 else dfs
select_result(dfs) ==
    IF Cardinality(DOMAIN dfs) = 1
    THEN IF "hourly" \in DOMAIN dfs
         THEN [exc |-> NoExc, ret |-> dfs["hourly"]]
         ELSE [exc |-> "KeyError", ret |-> None]
    ELSE [exc |-> NoExc, ret |-> Dict(dfs)]

\* the body of to_dataframe after data was fetched and is not None
shape(data) ==
    LET h == IF "hourly" \in DOMAIN data.v
             THEN make_table(data.v["hourly"])
             ELSE [exc |-> NoExc, df |-> None]
        d == IF "daily" \in DOMAIN data.v
             THEN make_table(data.v["daily"])
             ELSE [exc |-> NoExc, df |-> None]
        dfs == (IF "hourly" \in DOMAIN data.v
                THEN ("hourly" :> h.df) ELSE EmptyDict) @@
               (IF "daily" \in DOMAIN data.v
                THEN ("daily" :> d.df) ELSE EmptyDict)
    IN  IF h.exc # NoExc THEN [exc |-> h.exc, ret |-> None]
        ELSE IF d.exc # NoExc THEN [exc |-> d.exc, ret |-> None]
        ELSE IF no_tables(dfs) THEN [exc |-> "ValueError", ret |-> None]
        ELSE select_result(dfs)

\* the call self.to_dataframe()
to_dataframe(obj, http) ==
    LET f == fetch(obj, http)
        r == IF f.exc # NoExc THEN [exc |-> f.exc, ret |-> None]
             ELSE IF no_data(f.ret) THEN [exc |-> "ValueError", ret |-> None]
             ELSE shape(f.ret)
    IN  [ self |-> f.self, ret |-> r.ret, exc |-> r.exc,
          stdout |-> f.stdout, request |-> f.request, params |-> f.params ]

----------------------------------------------------------------------------
(* Actions. *)

Init ==
    /\ self = None
    /\ op = "none"
    /\ arg = None
    /\ ret = None
    /\ exc = NoExc
    /\ stdout = FALSE
    /\ request = None
    /\ first_params = None

Construct ==
    /\ op = "none"
    /\ \E a \in InitArgs :
         LET r == __init__(a)
         IN  /\ self' = r.self
             /\ op' = "__init__"
             /\ arg' = a
             /\ ret' = None
             /\ exc' = r.exc
    /\ UNCHANGED <<stdout, request, first_params>>

\* first_params keeps the mapping of the first _build_params call
remember(params) == IF first_params = None THEN params ELSE first_params

BuildParams ==
    /\ self # None
    /\ LET r == _build_params(self)
       IN  /\ self' = r.self
           /\ op' = "_build_params"
           /\ arg' = None
           /\ ret' = r.ret
           /\ exc' = r.exc
           /\ stdout' = FALSE
           /\ first_params' = remember(r.ret)
    /\ UNCHANGED request

Fetch ==
    /\ self # None
    /\ \E http \in HttpOutcomes :
         LET r == fetch(self, http)
         IN  /\ self' = r.self
             /\ op' = "fetch"
             /\ arg' = http
             /\ ret' = r.ret
             /\ exc' = r.exc
             /\ stdout' = r.stdout
             /\ request' = r.request
             /\ first_params' = remember(r.params)

ToDataframe ==
    /\ self # None
    /\ \E http \in HttpOutcomes :
         LET r == to_dataframe(self, http)
         IN  /\ self' = r.self
             /\ op' = "to_dataframe"
             /\ arg' = http
             /\ ret' = r.ret
             /\ exc' = r.exc
             /\ stdout' = r.stdout
             /\ request' = r.request
             /\ first_params' = remember(r.params)

Next == Construct \/ BuildParams \/ Fetch \/ ToDataframe

Spec == Init /\ [][Next]_vars

----------------------------------------------------------------------------
(* Properties. *)

InSeq(v, s) == \E i \in 1..Len(s) : s[i] = v

\* out is V restricted to the positions whose element is in S, in order
IsFilterOf(out, V, S) ==
    LET I == { i \in 1..Len(V) : V[i] \in S }
        kth(k) == CHOOSE i \in I : Cardinality({ j \in I : j <= i }) = k
    IN  /\ Len(out) = Cardinality(I)
        /\ \A k \in 1..Len(out) : out[k] = V[kth(k)]

Constructed == self # None

\* the HTTP GET of the last fetch / to_dataframe ended in a transport
\* failure or an error status
HttpFailed == arg.kind # "response" \/ arg.status >= 400

\* the HTTP GET of the last fetch / to_dataframe delivered a JSON object
GotPayload ==
    arg.kind = "response" /\ arg.status < 400 /\ arg.decodable

\* the section `name` of the delivered payload yields a table
Produced(name) ==
    /\ name \in DOMAIN arg.json.v
    /\ "time" \in DOMAIN arg.json.v[name]

\* the operations a caller can have invoked last
Operations == {"none", "__init__", "_build_params", "fetch", "to_dataframe"}

\* C1: hourly_vars is exactly the subsequence of the constructor's variable
\* list whose elements are in the hourly catalog (order and duplicates
\* kept), daily_vars likewise for the daily catalog, and a variable in
\* neither catalog is in neither list.
C1_Classification ==
    /\ (op = "__init__" /\ exc = NoExc) => self.variables = arg.variables
    /\ Constructed =>
         /\ IsFilterOf(self.hourly_vars, self.variables, HOURLY_VARIABLES)
         /\ IsFilterOf(self.daily_vars, self.variables, DAILY_VARIABLES)
         /\ \A v \in Names \ (HOURLY_VARIABLES \cup DAILY_VARIABLES) :
              ~InSeq(v, self.hourly_vars) /\ ~InSeq(v, self.daily_vars)

\* C1 witness: a constructed object whose list had an entry dropped from
\* hourly_vars and two entries kept in it
C1_Witness ==
    /\ op = "__init__" /\ Constructed
    /\ self.variables = <<"weather_code", "temperature_2m">>
    /\ self.hourly_vars = <<"weather_code", "temperature_2m">>
    /\ self.daily_vars = <<"weather_code">>

\* C2: construction raises ValueError exactly when every entry of the
\* variable list is unknown to both catalogs (the empty list included) and
\* succeeds otherwise; a constructed object has hourly_vars or daily_vars
\* non-empty.
C2_ConstructionFails ==
    /\ op = "__init__" =>
         /\ exc \in {NoExc, "ValueError"}
         /\ exc = "ValueError" <=>
              \A i \in 1..Len(arg.variables) :
                 arg.variables[i] \notin HOURLY_VARIABLES \cup DAILY_VARIABLES
         /\ exc = NoExc <=> Constructed
    /\ Constructed => self.hourly_vars # <<>> \/ self.daily_vars # <<>>

\* C2 witness: construction with a non-empty list of unknown names raised
C2_Witness ==
    /\ op = "__init__" /\ exc = "ValueError" /\ ~Constructed
    /\ arg.variables = <<"wind_speed", "wind_speed">>

\* C3 (as claimed): _build_params returns the ten base keys, and hourly,
\* daily, model, elevation exactly when hourly_vars is non-empty,
\* daily_vars is non-empty, a model was provided (any value, the empty
\* string included), an elevation was provided.
C3_AsClaimed ==
    op = "_build_params" =>
        /\ exc = NoExc
        /\ BaseKeys \subseteq DOMAIN ret.v
        /\ "hourly" \in DOMAIN ret.v <=> self.hourly_vars # <<>>
        /\ "daily" \in DOMAIN ret.v <=> self.daily_vars # <<>>
        /\ "model" \in DOMAIN ret.v <=> self.model # None
        /\ "elevation" \in DOMAIN ret.v <=> self.elevation # None

\* C4 (as claimed): when to_dataframe got a payload and exactly one of the
\* two tables was produced it returns that table; when both were produced
\* it returns a mapping with exactly the keys "hourly" and "daily".
C4_AsClaimed ==
    (op = "to_dataframe" /\ GotPayload) =>
        /\ (Produced("hourly") /\ "daily" \notin DOMAIN arg.json.v) =>
             /\ exc = NoExc
             /\ ret = make_table(arg.json.v["hourly"]).df
        /\ (Produced("daily") /\ "hourly" \notin DOMAIN arg.json.v) =>
             /\ exc = NoExc
             /\ ret = make_table(arg.json.v["daily"]).df
        /\ (Produced("hourly") /\ Produced("daily")) =>
             /\ exc = NoExc
             /\ ret.type = "dict"
             /\ DOMAIN ret.v = {"hourly", "daily"}
             /\ ret.v["hourly"] = make_table(arg.json.v["hourly"]).df
             /\ ret.v["daily"] = make_table(arg.json.v["daily"]).df

\* C5: to_dataframe raises ValueError and returns no table when the HTTP
\* request failed (fetch produced None) and when the payload has neither an
\* hourly nor a daily section.
C5_DataUnavailable ==
    op = "to_dataframe" =>
        /\ HttpFailed => (exc = "ValueError" /\ ret = None)
        /\ ( /\ GotPayload
             /\ "hourly" \notin DOMAIN arg.json.v
             /\ "daily" \notin DOMAIN arg.json.v ) =>
             (exc = "ValueError" /\ ret = None)

\* C5 witness: to_dataframe on the empty JSON object raised ValueError
C5_Witness ==
    /\ op = "to_dataframe" /\ GotPayload
    /\ arg.json = Dict(EmptyDict)
    /\ exc = "ValueError" /\ ret = None

\* C6: fetch never raises; on a transport failure or an error status it
\* prints the report and returns None; on success it returns the decoded
\* JSON payload unchanged.
C6_FetchNeverRaises ==
    op = "fetch" =>
        /\ exc = NoExc
        /\ HttpFailed => (ret = None /\ stdout)
        /\ GotPayload => (ret = arg.json /\ ~stdout)

\* C6 witness: a fetch answered with status 500 printed and returned None
C6_Witness ==
    /\ op = "fetch" /\ arg.kind = "response" /\ arg.status = 500
    /\ exc = NoExc /\ ret = None /\ stdout

\* C7: with elevation 0 given at construction _build_params has the key
\* elevation with value 0; without an elevation it has no elevation key.
C7_ElevationZero ==
    /\ (op = "__init__" /\ exc = NoExc) => self.elevation = arg.elevation
    /\ op = "_build_params" =>
         /\ self.elevation = Float(0) =>
              ("elevation" \in DOMAIN ret.v /\ ret.v["elevation"] = 0)
         /\ self.elevation = None => "elevation" \notin DOMAIN ret.v

\* C7 witness: _build_params of an object built with elevation 0
C7_Witness ==
    /\ op = "_build_params" /\ self.elevation = Float(0)
    /\ "elevation" \in DOMAIN ret.v /\ ret.v["elevation"] = 0

\* C8 (as claimed): whatever was invoked, the hourly catalog has exactly 35
\* distinct names and the daily catalog exactly 18.
C8_AsClaimed ==
    op \in Operations =>
        /\ Cardinality(HOURLY_VARIABLES) = 35
        /\ Cardinality(DAILY_VARIABLES) = 18

\* C8 (amended): whatever was invoked, the hourly catalog has exactly 36
\* distinct names and the daily catalog exactly 18.
C8_CatalogSizes ==
    op \in Operations =>
        /\ Cardinality(HOURLY_VARIABLES) = 36
        /\ Cardinality(DAILY_VARIABLES) = 18

\* C8 witness: an object was classified against both catalogs, each of
\* which kept a name
C8_Witness ==
    /\ op = "__init__" /\ Constructed
    /\ self.variables = <<"temperature_2m", "sunrise">>
    /\ self.hourly_vars = <<"temperature_2m">>
    /\ self.daily_vars = <<"sunrise">>

\* C9: no call changes the constructed object (its configuration fields,
\* hourly_vars, daily_vars), whatever the HTTP outcomes, and every
\* _build_params call returns the mapping the first one returned.
C9_NoSideEffects ==
    [][ Constructed =>
          /\ self' = self
          /\ (op' = "_build_params" /\ first_params # None) =>
                ret' = first_params ]_vars

\* C9 witness: a _build_params call made after a request was issued
C9_Witness ==
    /\ op = "_build_params" /\ request # None
    /\ ret = first_params /\ ret = request.params

\* C10: weather_code, sunshine_duration and et0_fao_evapotranspiration are
\* in both catalogs; a requested variable in both catalogs is in hourly_vars
\* and in daily_vars, and the request carries it in both the hourly and the
\* daily parameter.
C10_BothCatalogs ==
    /\ HOURLY_VARIABLES \cap DAILY_VARIABLES =
         {"weather_code", "sunshine_duration", "et0_fao_evapotranspiration"}
    /\ Constructed =>
         \A v \in HOURLY_VARIABLES \cap DAILY_VARIABLES :
            InSeq(v, self.variables) =>
               InSeq(v, self.hourly_vars) /\ InSeq(v, self.daily_vars)
    /\ (request # None /\ self.variables = <<"weather_code", "sunrise">>) =>
         /\ request.params.v["hourly"] = "weather_code"
         /\ request.params.v["daily"] = "weather_code,sunrise"
    /\ (request # None /\ self.variables = <<"weather_code">>) =>
         /\ request.params.v["hourly"] = "weather_code"
         /\ request.params.v["daily"] = "weather_code"

\* C10 witness: a request for weather_code alone was sent with both
\* parameters
C10_Witness ==
    /\ op = "fetch" /\ request # None
    /\ self.variables = <<"weather_code">>
    /\ request.url = BASE_URL
    /\ request.params.v["hourly"] = "weather_code"
    /\ request.params.v["daily"] = "weather_code"

=============================================================================
